---- MODULE Spec2Model ----
(***************************************************************************)
(* Model of the CodeAI Assistant API (src/main.py): a FastAPI service that *)
(* validates a (code, language, task) request, builds a prompt from one of *)
(* three templates, calls the external Gemini model once and relays the    *)
(* text.                                                                   *)
(*                                                                         *)
(* Text is a sequence of tokens.  The submitted code is a sequence of      *)
(* one-character tokens; the fixed parts of templates and messages are one *)
(* token each, and a code fence (three backticks) is a token of its own,   *)
(* written "<fence>"; a backtick character of the code is written "<bt>".  *)
(*                                                                         *)
(* Two specifications:                                                     *)
(*   Spec      the service: concurrent requests to the four endpoints;     *)
(*   SpecPure  validate_request and create_prompt applied to every input   *)
(*             triple of a bounded set.                                    *)
(***************************************************************************)
EXTENDS Integers, Sequences, FiniteSets, TLC

\* ------------------------------------------------------------- bounds

\* Number of POST /api/code requests of a behaviour of Spec.
NumRequests == 2

\* Longest code text of SpecPure, in characters.
MaxCodeLen == 3

\* ------------------------------------------------------------- state

VARIABLES
    SUPPORTED_LANGUAGES,  \* main.py:69, module-level list
    SUPPORTED_TASKS,      \* main.py:70, module-level list
    req,                  \* req[r]: the CodeRequest of POST request r
    pc,                   \* pc[r]: "idle", "received", "calling", "done"
    prep,                 \* prep[r]: what lines 134-135 did for request r
    calls,                \* calls[r]: model.generate_content calls made for r
    outcome,              \* outcome[r]: what the model call of r did
    resp,                 \* resp[r]: the HTTP response sent for r
    lastGet,              \* the latest response of a GET endpoint
    lastProbe,            \* what the model call behind lastGet did, if it made one
    arg,                  \* SpecPure: the CodeRequest under test
    vres,                 \* SpecPure: result of validate_request(arg)
    prompts               \* SpecPure: results of successive create_prompt(arg)

vars == <<SUPPORTED_LANGUAGES, SUPPORTED_TASKS, req, pc, prep, calls, outcome,
          resp, lastGet, lastProbe, arg, vres, prompts>>

config == <<SUPPORTED_LANGUAGES, SUPPORTED_TASKS>>
serviceVars == <<req, pc, prep, calls, outcome, resp, lastGet, lastProbe>>
pureVars == <<arg, vres, prompts>>

Requests == 1..NumRequests

\* ------------------------------------------------------------- text

\* Characters str.strip() removes (among those the inputs use).
Whitespace == {" ", "\t", "\n"}

RECURSIVE lstrip(_)
lstrip(s) ==
    IF s # <<>> /\ Head(s) \in Whitespace THEN lstrip(Tail(s)) ELSE s

RECURSIVE rstrip(_)
rstrip(s) ==
    IF s # <<>> /\ s[Len(s)] \in Whitespace
    THEN rstrip(SubSeq(s, 1, Len(s) - 1))
    ELSE s

\* str.strip()
strip(s) == rstrip(lstrip(s))

\* sep.join(items)
RECURSIVE join(_, _)
join(sep, items) ==
    IF items = <<>> THEN <<>>
    ELSE IF Len(items) = 1 THEN <<items[1]>>
    ELSE <<items[1], sep>> \o join(sep, Tail(items))

\* x in list
In(x, list) == \E i \in 1..Len(list) : list[i] = x

\* ------------------------------------------------------------- results

\* The result of evaluating a Python expression: a value, or a raised
\* exception.  exc is "none", "HTTPException" or "Exception"; for an
\* HTTPException status_code and detail are its fields, for any other
\* exception detail is str(e).
Return(v) == [exc |-> "none", status_code |-> 0, detail |-> <<>>, value |-> v]

HTTPException(status_code, detail) ==
    [exc |-> "HTTPException", status_code |-> status_code, detail |-> detail,
     value |-> <<>>]

Raise(text) ==
    [exc |-> "Exception", status_code |-> 0, detail |-> text, value |-> <<>>]

\* ------------------------------------------------------------- validator

EmptyCodeDetail == <<"Code cannot be empty">>
LanguagePrefix == "Unsupported language. Supported languages are: "
TaskPrefix == "Unsupported task. Supported tasks are: "

validate_request_wrong_list(request) ==
    IF strip(request.code) = <<>>
    THEN HTTPException(400, EmptyCodeDetail)
    ELSE IF ~In(request.language, SUPPORTED_LANGUAGES)
    THEN HTTPException(400, <<LanguagePrefix>> \o join(", ", SUPPORTED_TASKS))
    ELSE IF ~In(request.task, SUPPORTED_TASKS)
    THEN HTTPException(400, <<TaskPrefix>> \o join(", ", SUPPORTED_LANGUAGES))
    ELSE Return(<<>>)

validate_request_task_first(request) ==
    IF ~In(request.task, SUPPORTED_TASKS)
    THEN HTTPException(400, <<TaskPrefix>> \o join(", ", SUPPORTED_TASKS))
    ELSE IF ~In(request.language, SUPPORTED_LANGUAGES)
    THEN HTTPException(400, <<LanguagePrefix>> \o join(", ", SUPPORTED_LANGUAGES))
    ELSE IF strip(request.code) = <<>>
    THEN HTTPException(400, EmptyCodeDetail)
    ELSE Return(<<>>)

validate_request(request) ==
    IF strip(request.code) = <<>>
    THEN HTTPException(400, EmptyCodeDetail)
    ELSE IF ~In(request.language, SUPPORTED_LANGUAGES)
    THEN HTTPException(400, <<LanguagePrefix>> \o join(", ", SUPPORTED_LANGUAGES))
    ELSE IF ~In(request.task, SUPPORTED_TASKS)
    THEN HTTPException(400, <<TaskPrefix>> \o join(", ", SUPPORTED_TASKS))
    ELSE Return(<<>>)

\* ------------------------------------------------------------- prompt builder

\* The three backticks that open or close a fenced block.
Fence == "<fence>"

DebugHead == "Analyze this "
DebugBody ==
    " code and provide a detailed debugging report:\n1. Identify any bugs, logical errors, or potential issues\n2. Explain each problem found\n3. Provide the corrected code\n4. Add explanatory comments for the fixes\n\nCode to debug:\n"

CorrectHead == "Review and improve this "
CorrectBody ==
    " code:\n1. Fix any bugs or issues\n2. Improve code efficiency and readability\n3. Apply best practices\n4. Add helpful comments\n5. Provide the improved code with explanations\n\nOriginal code:\n"

GenerateHead == "Generate "
GenerateBody ==
    " code based on this description:\n1. Create efficient and well-structured code\n2. Follow best practices and conventions\n3. Include error handling\n4. Add comprehensive comments\n5. Ensure the code is production-ready\n\nRequirements:\n"

\* <fence>{language}\n{code}\n<fence>
FencedBlock(language, code) == <<Fence, language, "\n">> \o code \o <<"\n", Fence>>

\* The dict built at lines 82-115: all three f-strings are evaluated.
prompts_dict(request) ==
    [t \in {"debug", "correct", "generate"} |->
        CASE t = "debug" ->
                <<DebugHead, request.language, DebugBody>>
                    \o FencedBlock(request.language, request.code)
          [] t = "correct" ->
                <<CorrectHead, request.language, CorrectBody>>
                    \o FencedBlock(request.language, request.code)
          [] t = "generate" ->
                <<GenerateHead, request.language, GenerateBody>> \o request.code]

create_prompt_fenced_generate(request) ==
    IF request.task = "generate"
    THEN Return(<<GenerateHead, request.language, GenerateBody>>
                    \o FencedBlock(request.language, request.code))
    ELSE IF request.task \in DOMAIN prompts_dict(request)
    THEN Return(prompts_dict(request)[request.task])
    ELSE Raise(<<"'", request.task, "'">>)

\* prompts[request.task]: a missing key raises KeyError, whose str() is the
\* repr of the key.
create_prompt(request) ==
    IF request.task \in DOMAIN prompts_dict(request)
    THEN Return(prompts_dict(request)[request.task])
    ELSE Raise(<<"'", request.task, "'">>)

\* ------------------------------------------------------------- external model

\* What one call model.generate_content(prompt) can do: raise (network,
\* quota, model-side error), return a response whose .text is readable, or
\* return a response whose .text raises when read (a blocked response).
ModelOutcomes ==
    { [kind |-> "raise",    text |-> "429 quota exceeded"],
      [kind |-> "response", text |-> "def f(n): ..."],
      [kind |-> "blocked",  text |-> "response.text requires a valid Part"] }

NoOutcome == [kind |-> "none", text |-> ""]

\* ------------------------------------------------------------- POST /api/code

UpstreamDetail == <<"Failed to generate response from AI model">>
InternalDetail == <<"An internal server error occurred. Please try again later.">>
Explanation == <<"Code processing completed successfully">>

\* An HTTP response: a {detail} body, or a CodeResponse body.
DetailResponse(status, detail) ==
    [status |-> status, kind |-> "detail", detail |-> detail,
     result |-> <<>>, explanation |-> <<>>]

CodeResponse(result, explanation) ==
    [status |-> 200, kind |-> "CodeResponse", detail |-> <<>>,
     result |-> result, explanation |-> explanation]

NoResponse ==
    [status |-> 0, kind |-> "none", detail |-> <<>>,
     result |-> <<>>, explanation |-> <<>>]

\* The handler FastAPI runs for an exception no except clause caught.
global_exception_handler(exc) == DetailResponse(500, InternalDetail)

\* What FastAPI sends for the outcome of process_code: the returned
\* CodeResponse, the status and detail of an HTTPException, or the global
\* handler's answer to any other exception.
send(res) ==
    IF res.exc = "none" THEN CodeResponse(res.value, Explanation)
    ELSE IF res.exc = "HTTPException"
    THEN DetailResponse(res.status_code, res.detail)
    ELSE global_exception_handler(res)

prepare_prompt_first(request) ==
    [validated |-> validate_request(request),
     prompted |-> <<create_prompt(request)>>]

\* Lines 134-135: validate_request, then create_prompt unless it raised.
prepare(request) ==
    LET v == validate_request(request)
    IN  [validated |-> v,
         prompted |-> IF v.exc = "none" THEN <<create_prompt(request)>> ELSE <<>>]

NotPrepared == [validated |-> Return(<<>>), prompted |-> <<>>]

prepared_ignores_validation(p) ==
    IF p.prompted # <<>> THEN p.prompted[1] ELSE Return(<<>>)

\* The outcome of lines 134-135 as the try block sees it: the exception
\* validate_request raised, else what create_prompt raised or returned.
prepared(p) ==
    IF p.validated.exc # "none" THEN p.validated
    ELSE IF p.prompted # <<>> THEN p.prompted[1]
    ELSE Return(<<>>)

generate_call_leaks(o) ==
    IF o.kind = "raise" THEN HTTPException(500, <<o.text>>) ELSE Return(<<>>)

\* Lines 137-142: the model call in its own try; any exception becomes a
\* 500 with the fixed upstream detail.
generate_call(o) ==
    IF o.kind = "raise" THEN HTTPException(500, UpstreamDetail) ELSE Return(<<>>)

\* Line 145: response.text
response_text(o) ==
    IF o.kind = "blocked" THEN Raise(<<o.text>>) ELSE Return(<<o.text>>)

\* Lines 137-147: the model call, then the CodeResponse built from its text.
generate(o) ==
    LET g == generate_call(o)
    IN  IF g.exc # "none" THEN g ELSE response_text(o)

\* Lines 148-153: an HTTPException is re-raised as it is; any other
\* exception becomes an HTTPException 500 whose detail is str(e).
except_clauses(res) ==
    IF res.exc = "Exception" THEN HTTPException(500, res.detail) ELSE res

\* Number of model calls the lines 137-142 make for one request.
calls_per_request_retry(o) == IF o.kind = "raise" THEN 2 ELSE 1

calls_per_request(o) == 1

\* ------------------------------------------------------------- GET endpoints

get_supported_languages_pop ==
    /\ lastGet' = [endpoint |-> "languages", status |-> 200,
                   body |-> [languages |-> SUPPORTED_LANGUAGES]]
    /\ SUPPORTED_LANGUAGES' =
          IF SUPPORTED_LANGUAGES = <<>> THEN <<>> ELSE Tail(SUPPORTED_LANGUAGES)
    /\ lastProbe' = "none"
    /\ UNCHANGED <<SUPPORTED_TASKS, req, pc, prep, calls, outcome, resp, pureVars>>

\* GET /api/languages
get_supported_languages ==
    /\ lastGet' = [endpoint |-> "languages", status |-> 200,
                   body |-> [languages |-> SUPPORTED_LANGUAGES]]
    /\ lastProbe' = "none"
    /\ UNCHANGED <<config, req, pc, prep, calls, outcome, resp, pureVars>>

\* GET /api/tasks
get_supported_tasks ==
    /\ lastGet' = [endpoint |-> "tasks", status |-> 200,
                   body |-> [tasks |-> SUPPORTED_TASKS]]
    /\ lastProbe' = "none"
    /\ UNCHANGED <<config, req, pc, prep, calls, outcome, resp, pureVars>>

health_body_unhealthy(o) ==
    [status |-> IF o.kind = "raise" THEN "unhealthy" ELSE "healthy",
     gemini_api |-> IF o.kind = "raise" THEN "error" ELSE "configured and working",
     supported_languages |-> Len(SUPPORTED_LANGUAGES),
     supported_tasks |-> Len(SUPPORTED_TASKS)]

\* Lines 168-181: the body health_check returns when its probe did o.
health_body(o) ==
    [status |-> "healthy",
     gemini_api |-> IF o.kind = "raise" THEN "error" ELSE "configured and working",
     supported_languages |-> Len(SUPPORTED_LANGUAGES),
     supported_tasks |-> Len(SUPPORTED_TASKS)]

\* GET /api/health: one probe call of the model, whose text is not read.
health_check ==
    \E o \in ModelOutcomes :
        /\ lastProbe' = o.kind
        /\ lastGet' = [endpoint |-> "health", status |-> 200, body |-> health_body(o)]
        /\ UNCHANGED <<config, req, pc, prep, calls, outcome, resp, pureVars>>

\* ------------------------------------------------------------- requests

\* The CodeRequest bodies the clients of Spec send: whitespace-only or
\* non-blank code, a supported or an unsupported language, each of the three
\* tasks or an unsupported one.  SpecPure covers the wider input set.
ReqCodes == { <<" ">>, <<"x">> }
ReqLanguages == { "python", "ruby" }
ReqTasks == { "debug", "correct", "generate", "explain" }

CodeRequests(codes, languages, tasks) ==
    [code : codes, language : languages, task : tasks]

NoRequest == [code |-> <<>>, language |-> "", task |-> ""]

\* A POST /api/code request arrives; requests are numbered in arrival order.
Receive(r) ==
    /\ pc[r] = "idle"
    /\ IF r = 1 THEN TRUE ELSE pc[r - 1] # "idle"
    /\ \E request \in CodeRequests(ReqCodes, ReqLanguages, ReqTasks) :
            req' = [req EXCEPT ![r] = request]
    /\ pc' = [pc EXCEPT ![r] = "received"]
    /\ UNCHANGED <<config, prep, calls, outcome, resp, lastGet, lastProbe, pureVars>>

\* process_code up to the model call (lines 132-135, and 148-153 for what
\* they raise): a failure is answered at once, a success leaves the prompt
\* to be sent to the model.
process_code_begin(r) ==
    /\ pc[r] = "received"
    /\ LET p == prepare(req[r])
           res == except_clauses(prepared(p))
       IN  /\ prep' = [prep EXCEPT ![r] = p]
           /\ IF res.exc = "none"
              THEN /\ pc' = [pc EXCEPT ![r] = "calling"]
                   /\ resp' = resp
              ELSE /\ pc' = [pc EXCEPT ![r] = "done"]
                   /\ resp' = [resp EXCEPT ![r] = send(res)]
    /\ UNCHANGED <<config, req, calls, outcome, lastGet, lastProbe, pureVars>>

\* process_code from the model call on (lines 137-153): the model does o.
process_code_generate(r) ==
    /\ pc[r] = "calling"
    /\ \E o \in ModelOutcomes :
        /\ outcome' = [outcome EXCEPT ![r] = o]
        /\ calls' = [calls EXCEPT ![r] = @ + calls_per_request(o)]
        /\ resp' = [resp EXCEPT ![r] = send(except_clauses(generate(o)))]
    /\ pc' = [pc EXCEPT ![r] = "done"]
    /\ UNCHANGED <<config, req, prep, lastGet, lastProbe, pureVars>>

\* ------------------------------------------------------------- Spec

NoGet == [endpoint |-> "none", status |-> 0, body |-> [none |-> TRUE]]

NotRun == [exc |-> "notrun", status_code |-> 0, detail |-> <<>>, value |-> <<>>]

InitConfig ==
    /\ SUPPORTED_LANGUAGES =
          <<"python", "javascript", "typescript", "java", "cpp", "rust", "go">>
    /\ SUPPORTED_TASKS = <<"debug", "correct", "generate">>

InitService ==
    /\ req = [r \in Requests |-> NoRequest]
    /\ pc = [r \in Requests |-> "idle"]
    /\ prep = [r \in Requests |-> NotPrepared]
    /\ calls = [r \in Requests |-> 0]
    /\ outcome = [r \in Requests |-> NoOutcome]
    /\ resp = [r \in Requests |-> NoResponse]
    /\ lastGet = NoGet
    /\ lastProbe = "none"

Init ==
    /\ InitConfig
    /\ InitService
    /\ arg = NoRequest
    /\ vres = NotRun
    /\ prompts = <<>>

Next ==
    \/ \E r \in Requests : Receive(r)
    \/ \E r \in Requests : process_code_begin(r)
    \/ \E r \in Requests : process_code_generate(r)
    \/ get_supported_languages
    \/ get_supported_tasks
    \/ health_check

Spec == Init /\ [][Next]_vars

\* ------------------------------------------------------------- SpecPure

\* Characters of a code text: blank, newline, a letter, a backtick.
CodeChars == { " ", "\n", "x", "<bt>" }

RECURSIVE SeqsUpTo(_, _)
SeqsUpTo(S, n) ==
    IF n = 0 THEN { <<>> }
    ELSE LET shorter == SeqsUpTo(S, n - 1)
         IN  shorter \cup { Append(s, c) : s \in shorter, c \in S }

PureCodes == SeqsUpTo(CodeChars, MaxCodeLen)
PureLanguages ==
    { "python", "javascript", "typescript", "java", "cpp", "rust", "go",
      "ruby", "Python", "" }
PureTasks == { "debug", "correct", "generate", "explain", "Debug", "" }

InitPure ==
    /\ InitConfig
    /\ InitService
    /\ arg \in CodeRequests(PureCodes, PureLanguages, PureTasks)
    /\ vres = NotRun
    /\ prompts = <<>>

\* validate_request(arg)
Validate ==
    /\ vres = NotRun
    /\ vres' = validate_request(arg)
    /\ UNCHANGED <<config, serviceVars, arg, prompts>>

\* create_prompt(arg), on a validated arg, up to twice
BuildPrompt ==
    /\ vres.exc = "none"
    /\ Len(prompts) < 2
    /\ prompts' = Append(prompts, create_prompt(arg))
    /\ UNCHANGED <<config, serviceVars, arg, vres>>

NextPure == Validate \/ BuildPrompt

SpecPure == InitPure /\ [][NextPure]_vars

\* ------------------------------------------------------------- properties

\* The allow-lists as the specification states them.
Languages7 == <<"python", "javascript", "typescript", "java", "cpp", "rust", "go">>
Tasks3 == <<"debug", "correct", "generate">>

Blank(code) == \A i \in 1..Len(code) : code[i] \in Whitespace
BadLanguage(request) == ~In(request.language, Languages7)
BadTask(request) == ~In(request.task, Tasks3)
Invalid(request) == Blank(request.code) \/ BadLanguage(request) \/ BadTask(request)

Tokens(text) == { text[i] : i \in 1..Len(text) }

\* The items a detail lists after its first token, if it is that first
\* token followed by the items joined with ", "; <<>> otherwise.
Enumerated(detail) ==
    IF detail = <<>> THEN <<>>
    ELSE LET items == SelectSeq(Tail(detail), LAMBDA tok : tok # ", ")
         IN  IF detail = <<detail[1]>> \o join(", ", items) THEN items ELSE <<>>

EndsWith(text, suffix) ==
    /\ Len(suffix) <= Len(text)
    /\ SubSeq(text, Len(text) - Len(suffix) + 1, Len(text)) = suffix

\* C1: a POST /api/code request that fails validation (blank code, or a
\* language or task outside the allow-lists) never reaches the model call:
\* no generate_content call is made for it at any point after its receipt,
\* and its response is a 400.
C1_InvalidNeverCallsModel ==
    \A r \in Requests :
        (pc[r] # "idle" /\ Invalid(req[r])) =>
            /\ calls[r] = 0
            /\ outcome[r] = NoOutcome
            /\ pc[r] # "calling"
            /\ pc[r] = "done" => resp[r].status = 400

C1_Witness ==
    \E r \in Requests :
        /\ pc[r] = "done"
        /\ Invalid(req[r])
        /\ resp[r].status = 400
        /\ calls[r] = 0

\* C2: validate_request reports exactly one error, the first of: EmptyCode
\* for blank code whatever language and task are, UnsupportedLanguage for a
\* language outside the allow-list whatever task is, UnsupportedTask for a
\* task outside the allow-list; it succeeds otherwise.  The detail of an
\* error never carries the message of another.
C2_FirstFailingCheckWins ==
    vres # NotRun =>
        LET heads == Tokens(vres.detail)
                        \cap {EmptyCodeDetail[1], LanguagePrefix, TaskPrefix}
        IN  IF Blank(arg.code)
            THEN vres.exc = "HTTPException" /\ heads = {EmptyCodeDetail[1]}
            ELSE IF BadLanguage(arg)
            THEN vres.exc = "HTTPException" /\ heads = {LanguagePrefix}
            ELSE IF BadTask(arg)
            THEN vres.exc = "HTTPException" /\ heads = {TaskPrefix}
            ELSE vres.exc = "none"

C2_Witness ==
    /\ vres.exc = "HTTPException"
    /\ vres.detail = EmptyCodeDetail
    /\ arg.code # <<>>
    /\ Blank(arg.code)
    /\ BadLanguage(arg)
    /\ BadTask(arg)

\* C3: when the model call of a request fails, the response is a 500 whose
\* detail is the fixed text "Failed to generate response from AI model"; the
\* detail does not carry the provider's exception text and no result text is
\* returned.
C3_UpstreamFailureIsGeneric ==
    \A r \in Requests :
        (pc[r] = "done" /\ outcome[r].kind = "raise") =>
            /\ resp[r].status = 500
            /\ resp[r].kind = "detail"
            /\ resp[r].detail = <<"Failed to generate response from AI model">>
            /\ outcome[r].text \notin Tokens(resp[r].detail)
            /\ resp[r].result = <<>>

C3_Witness ==
    \E r \in Requests :
        /\ pc[r] = "done"
        /\ outcome[r].kind = "raise"
        /\ resp[r].status = 500

\* C4: an unexpected failure that is neither a validation error nor a
\* failure of the model call (here: reading the text of the returned
\* response raises) produces a 500 whose detail does not carry the text of
\* the underlying exception.
C4_UnexpectedFailureIsGeneric ==
    \A r \in Requests :
        (pc[r] = "done" /\ outcome[r].kind = "blocked") =>
            /\ resp[r].status = 500
            /\ outcome[r].text \notin Tokens(resp[r].detail)

\* C5: a request that passes validation makes exactly one model call,
\* whether the call succeeds or fails and whatever was served before; no
\* request ever makes more than one.
C5_ExactlyOneModelCall ==
    \A r \in Requests :
        /\ calls[r] <= 1
        /\ (pc[r] = "done" /\ ~Invalid(req[r])) => calls[r] = 1

C5_Witness ==
    \E r1, r2 \in Requests :
        /\ r1 < r2
        /\ pc[r1] = "done" /\ pc[r2] = "done"
        /\ req[r1] = req[r2]
        /\ ~Invalid(req[r1])
        /\ outcome[r1].kind = "raise"
        /\ calls[r1] = 1 /\ calls[r2] = 1

\* C6: create_prompt is applied only to a request on which validate_request
\* succeeded, and on every such request it returns a prompt without error.
C6_PromptOnlyAfterValidation ==
    \A r \in Requests :
        prep[r].prompted # <<>> =>
            /\ ~Invalid(req[r])
            /\ prep[r].validated.exc = "none"
            /\ prep[r].prompted[1].exc = "none"
            /\ prep[r].prompted[1].value # <<>>

C6_Witness ==
    \E r1, r2 \in Requests :
        /\ prep[r1].prompted # <<>>
        /\ pc[r2] = "done" /\ Invalid(req[r2]) /\ prep[r2].prompted = <<>>

\* C7: GET /api/health always answers 200 with status "healthy"; gemini_api
\* is "configured and working" exactly when the probe call succeeded and
\* "error" exactly when it failed; the counts are 7 and 3.
C7_HealthAlwaysHealthy ==
    lastGet.endpoint = "health" =>
        /\ lastGet.status = 200
        /\ lastGet.body.status = "healthy"
        /\ lastGet.body.gemini_api = "configured and working" <=> lastProbe # "raise"
        /\ lastGet.body.gemini_api = "error" <=> lastProbe = "raise"
        /\ lastGet.body.supported_languages = 7
        /\ lastGet.body.supported_tasks = 3

C7_Witness ==
    /\ lastGet.endpoint = "health"
    /\ lastProbe = "raise"
    /\ lastGet.body.status = "healthy"

\* C8: for non-blank code and a language outside the allow-list the 400
\* detail enumerates exactly the 7 supported languages, in the order
\* GET /api/languages returns them; for a task outside the allow-list (code
\* and language valid) it enumerates exactly debug, correct, generate, the
\* list GET /api/tasks returns.
C8_DetailEnumeratesAllowList ==
    /\ \A r \in Requests :
          (pc[r] = "done" /\ ~Blank(req[r].code)) =>
              /\ BadLanguage(req[r]) =>
                    /\ resp[r].status = 400
                    /\ Enumerated(resp[r].detail) = Languages7
              /\ (~BadLanguage(req[r]) /\ BadTask(req[r])) =>
                    /\ resp[r].status = 400
                    /\ Enumerated(resp[r].detail) = Tasks3
    /\ lastGet.endpoint = "languages" => lastGet.body.languages = Languages7
    /\ lastGet.endpoint = "tasks" => lastGet.body.tasks = Tasks3

C8_Witness ==
    /\ lastGet.endpoint = "languages"
    /\ \E r1, r2 \in Requests :
          /\ pc[r1] = "done" /\ ~Blank(req[r1].code) /\ BadLanguage(req[r1])
          /\ Enumerated(resp[r1].detail) = lastGet.body.languages
          /\ pc[r2] = "done" /\ ~Blank(req[r2].code) /\ ~BadLanguage(req[r2])
          /\ BadTask(req[r2])

\* C9: create_prompt is a function of (code, language, task): a repeated
\* call returns the same prompt.  The template is chosen by task: for debug
\* and correct the prompt ends with a fenced block tagged with the language
\* and holding the code verbatim; for generate it ends with the code
\* verbatim and the template adds no fence.
C9_PromptDeterministicAndShaped ==
    /\ Len(prompts) = 2 => prompts[1] = prompts[2]
    /\ \A i \in 1..Len(prompts) :
          LET p == prompts[i].value
              block == <<"<fence>", arg.language, "\n">> \o arg.code \o <<"\n", "<fence>">>
          IN  /\ prompts[i].exc = "none"
              /\ arg.task = "debug" =>
                    p[1] = "Analyze this " /\ EndsWith(p, block)
              /\ arg.task = "correct" =>
                    p[1] = "Review and improve this " /\ EndsWith(p, block)
              /\ arg.task = "generate" =>
                    /\ p[1] = "Generate "
                    /\ EndsWith(p, arg.code)
                    /\ \A j \in 1..(Len(p) - Len(arg.code)) : p[j] # "<fence>"

C9_Witness ==
    /\ Len(prompts) = 2
    /\ arg.task = "generate"
    /\ Len(arg.code) >= 2
    /\ "<bt>" \in Tokens(arg.code)
    /\ EndsWith(prompts[2].value, arg.code)

\* Two finished requests that agree on (code, language, task) and on the
\* outcome of their own model call got the same response.
C10_ResponsesIndependent ==
    \A r1, r2 \in Requests :
        (/\ pc[r1] = "done" /\ pc[r2] = "done"
         /\ req[r1] = req[r2]
         /\ outcome[r1] = outcome[r2]) => resp[r1] = resp[r2]

\* C10: no step of any endpoint changes the allow-lists, and the response of
\* a POST /api/code request is determined by its own (code, language, task)
\* and the outcome of its own model call: two requests that agree on both
\* get the same response, whatever else was in flight or served before.
C10_ConfigReadOnlyAndIndependent ==
    /\ [][config' = config]_vars
    /\ []C10_ResponsesIndependent

C10_Witness ==
    /\ lastGet.endpoint = "languages"
    /\ SUPPORTED_LANGUAGES = Languages7
    /\ \E r1, r2 \in Requests :
          /\ r1 < r2
          /\ pc[r1] = "done" /\ pc[r2] = "done"
          /\ req[r1] = req[r2]
          /\ outcome[r1].kind = "response"
          /\ outcome[r1] = outcome[r2]
          /\ resp[r1].status = 200

====
